---- MODULE Spec2Model ----
(***************************************************************************)
(* Model of scrips/mqtt-mcp-stdio.py: a launcher that imports              *)
(* mqtt_mcp.server.MQTTMCP (lines 10-14), and, when executed as the main   *)
(* program (line 20), constructs one server and awaits its run_async with  *)
(* transport="stdio" under asyncio.run (lines 16-21).                      *)
(*                                                                         *)
(* One execution of the script is a record (its inputs, its position, its  *)
(* bindings and what it has done so far).  Each statement of the script is *)
(* an operator from such a record to the next one, with its guard; the     *)
(* actions apply these operators to the variable proc.  The external       *)
(* server is a black box: its constructor returns or raises, its run loop  *)
(* stays suspended, returns or raises, and the host may kill the process   *)
(* while the run loop is suspended.  An exception nobody catches ends the  *)
(* interpreter with a traceback on stderr and exit status 1.               *)
(***************************************************************************)
EXTENDS Integers, Sequences, FiniteSets, TLC

VARIABLES proc, twin

vars == <<proc, twin>>

----------------------------------------------------------------------------
(* Bounds of the inputs *)

\* longest list of extra command-line words tried
MaxArgc == 1

\* number of environment variables that may be set
MaxEnv == 2

----------------------------------------------------------------------------
(* Inputs the host gives to an execution *)

ArgWords == {"--transport=http", "--debug"}

EnvNames == {"MQTT_TRANSPORT", "MQTT_HOST", "MQTT_PORT"}

RECURSIVE SeqsUpTo(_, _)
SeqsUpTo(S, n) ==
    IF n = 0 THEN {<<>>}
    ELSE LET shorter == SeqsUpTo(S, n - 1)
         IN  shorter \cup {Append(q, x) : q \in {r \in shorter : Len(r) = n - 1}, x \in S}

\* sys.argv without the script name
Argvs == SeqsUpTo(ArgWords, MaxArgc)

\* os.environ, as the set of variables that are set
Environs == {E \in SUBSET EnvNames : Cardinality(E) <= MaxEnv}

\* __name__ of the file: executed as a script, or loaded as a module
Names == {"__main__", "mqtt_mcp_stdio"}

\* What `from mqtt_mcp.server import MQTTMCP` does on this host:
\*   ok      the name is bound
\*   absent  the package is not installed (ModuleNotFoundError, an ImportError)
\*   broken  the package is there but loading it raises ImportError
\*   crash   loading it raises an exception that is not an ImportError
DepStates == {"ok", "absent", "broken", "crash"}

\* the outcomes `except ImportError` catches
ImportErrors == {"absent", "broken"}

\* kinds of exception the server's constructor or run loop may raise
ExcKinds == {"ImportError", "Exception"}

----------------------------------------------------------------------------
(* Texts, as lists of words *)

Diagnostic ==
    <<"Error:", "mqtt-mcp", "not", "found.", "Install", "with:",
      "uv", "pip", "install", "mqtt-mcp">>

Traceback == <<"Traceback", "(most", "recent", "call", "last):">>

\* sub occurs in text as a contiguous run of words
Contains(text, sub) ==
    \E i \in 1..(Len(text) - Len(sub) + 1) :
        \A j \in 1..Len(sub) : text[i + j - 1] = sub[j]

----------------------------------------------------------------------------
(* The state of one execution *)

\* exit status of a process that has not exited
NoExit == -1

Start(argv, environ, name, dep) ==
    [ argv        |-> argv,
      environ     |-> environ,
      name        |-> name,
      dep         |-> dep,
      pc          |-> "import",
      MQTTMCP     |-> FALSE,       \* the imported name is bound
      server      |-> "none",      \* local variable of main()
      constructed |-> <<>>,        \* argument lists of the calls MQTTMCP(...)
      instances   |-> 0,           \* constructor calls that returned
      runs        |-> <<>>,        \* keyword arguments of the calls run_async(...)
      exc         |-> "none",      \* exception being propagated
      stdout      |-> <<>>,
      stderr      |-> <<>>,
      exitCode    |-> NoExit,
      resolutions |-> 0,           \* executions of the import statement
      trace       |-> <<>> ]       \* what the execution has done, in order

InitStates ==
    {Start(a, e, n, d) : a \in Argvs, e \in Environs, n \in Names, d \in DepStates}

----------------------------------------------------------------------------
(* The statements of the script *)

\* line 11: from mqtt_mcp.server import MQTTMCP
ImportEn(s) == s.pc = "import"

\* variant: a bare `except:` that catches every load failure
ImportBareExcept(s) ==
    IF s.dep = "ok"
    THEN [s EXCEPT !.pc = "guard", !.MQTTMCP = TRUE,
                   !.resolutions = @ + 1,
                   !.trace = Append(@, "import_ok")]
    ELSE [s EXCEPT !.pc = "except",
                   !.resolutions = @ + 1,
                   !.trace = Append(@, "import_failed")]

Import(s) ==
    IF s.dep = "ok"
    THEN [s EXCEPT !.pc = "guard", !.MQTTMCP = TRUE,
                   !.resolutions = @ + 1,
                   !.trace = Append(@, "import_ok")]
    ELSE IF s.dep \in ImportErrors
    THEN [s EXCEPT !.pc = "except",
                   !.resolutions = @ + 1,
                   !.trace = Append(@, "import_failed")]
    ELSE [s EXCEPT !.pc = "propagate", !.exc = "Exception",
                   !.resolutions = @ + 1,
                   !.trace = Append(@, "import_crashed")]

\* line 13: print("Error: ...", file=sys.stderr)
PrintDiagnosticEn(s) == s.pc = "except"

\* variant: print without file=sys.stderr
PrintDiagnosticStdout(s) ==
    [s EXCEPT !.pc = "sysexit",
              !.stdout = Append(@, [by |-> "launcher", text |-> Diagnostic]),
              !.trace = Append(@, "diagnostic")]

PrintDiagnostic(s) ==
    [s EXCEPT !.pc = "sysexit",
              !.stderr = Append(@, [by |-> "launcher", text |-> Diagnostic]),
              !.trace = Append(@, "diagnostic")]

\* line 14: sys.exit(1)
SysExitEn(s) == s.pc = "sysexit"

\* variant: sys.exit() without a status
SysExitNoStatus(s) ==
    [s EXCEPT !.pc = "exited", !.exitCode = 0,
              !.trace = Append(@, "sys_exit")]

\* variant: the handler goes back to the import instead of exiting
SysExitRetry(s) ==
    [s EXCEPT !.pc = "import", !.trace = Append(@, "retry")]

SysExit(s) ==
    [s EXCEPT !.pc = "exited", !.exitCode = 1,
              !.trace = Append(@, "sys_exit")]

\* lines 20-21: if __name__ == "__main__": asyncio.run(main())
MainGuardEn(s) == s.pc = "guard"

\* variant: asyncio.run(main()) at module level, without the guard
MainGuardMissing(s) ==
    [s EXCEPT !.pc = "construct", !.trace = Append(@, "asyncio_run")]

MainGuard(s) ==
    IF s.name = "__main__"
    THEN [s EXCEPT !.pc = "construct", !.trace = Append(@, "asyncio_run")]
    ELSE [s EXCEPT !.pc = "loaded", !.trace = Append(@, "loaded")]

\* line 17: server = MQTTMCP(), the constructor returns
ConstructEn(s) == s.pc = "construct" /\ s.MQTTMCP

ConstructReturns(s) ==
    [s EXCEPT !.pc = "call_run", !.server = "handle",
              !.constructed = Append(@, <<>>),
              !.instances = @ + 1,
              !.trace = Append(@, "construct")]

\* line 17: the constructor raises; main() has no handler
\* variant: main() is called inside the try block of the import
ConstructRaisesInsideTry(s, e) ==
    [s EXCEPT !.pc = IF e = "ImportError" THEN "except" ELSE "propagate",
              !.exc = IF e = "ImportError" THEN "none" ELSE e,
              !.constructed = Append(@, <<>>),
              !.trace = Append(@, "construct_raised")]

ConstructRaises(s, e) ==
    [s EXCEPT !.pc = "propagate", !.exc = e,
              !.constructed = Append(@, <<>>),
              !.trace = Append(@, "construct_raised")]

\* line 18: server.run_async(transport="stdio") is called and awaited
CallRunEn(s) == s.pc = "call_run" /\ s.server # "none"

\* variant: the server's default transport instead of stdio
CallRunDefaultTransport(s) ==
    [s EXCEPT !.pc = "running",
              !.runs = Append(@, [transport |-> "http"]),
              !.trace = Append(@, "run_async")]

\* variant: the transport is taken from the command line or the environment
CallRunTransportFromHost(s) ==
    [s EXCEPT !.pc = "running",
              !.runs = Append(@, [transport |->
                           IF Len(s.argv) > 0 THEN s.argv[1]
                           ELSE IF "MQTT_TRANSPORT" \in s.environ THEN "env"
                           ELSE "stdio"]),
              !.trace = Append(@, "run_async")]

CallRun(s) ==
    [s EXCEPT !.pc = "running",
              !.runs = Append(@, [transport |-> "stdio"]),
              !.trace = Append(@, "run_async")]

\* line 18: the awaited call returns
RunEn(s) == s.pc = "running"

RunReturns(s) ==
    [s EXCEPT !.pc = "returned", !.trace = Append(@, "run_returned")]

\* line 18: the awaited call raises; main() has no handler
RunRaises(s, e) ==
    [s EXCEPT !.pc = "propagate", !.exc = e,
              !.trace = Append(@, "run_raised")]

\* the host kills the process while the run loop is suspended
ExternalKill(s) ==
    [s EXCEPT !.pc = "killed", !.trace = Append(@, "killed")]

\* line 21: asyncio.run returns, the script ends, the interpreter exits with 0
\* variant: a timeout ends the launcher while the run loop is suspended
ExitNormallyEnTimeout(s) == s.pc \in {"running", "returned"}

ExitNormallyEn(s) == s.pc = "returned"

\* variant: the script ends with sys.exit(1) after the run loop
ExitNormallyStatusOne(s) ==
    [s EXCEPT !.pc = "exited", !.exitCode = 1,
              !.trace = Append(@, "exit")]

ExitNormally(s) ==
    [s EXCEPT !.pc = "exited", !.exitCode = 0,
              !.trace = Append(@, "exit")]

\* an exception no handler of the script catches: traceback, exit status 1
PropagateEn(s) == s.pc = "propagate"

Propagate(s) ==
    [s EXCEPT !.pc = "exited", !.exitCode = 1,
              !.stderr = Append(@, [by |-> "interpreter", text |-> Traceback]),
              !.trace = Append(@, "uncaught")]

----------------------------------------------------------------------------
(* One execution *)

Init == proc \in InitStates /\ twin = proc

DoImport == ImportEn(proc) /\ proc' = Import(proc) /\ UNCHANGED twin

DoPrintDiagnostic ==
    PrintDiagnosticEn(proc) /\ proc' = PrintDiagnostic(proc) /\ UNCHANGED twin

DoSysExit == SysExitEn(proc) /\ proc' = SysExit(proc) /\ UNCHANGED twin

DoMainGuard == MainGuardEn(proc) /\ proc' = MainGuard(proc) /\ UNCHANGED twin

DoConstructReturns ==
    ConstructEn(proc) /\ proc' = ConstructReturns(proc) /\ UNCHANGED twin

DoConstructRaises ==
    ConstructEn(proc) /\ \E e \in ExcKinds : proc' = ConstructRaises(proc, e)
    /\ UNCHANGED twin

DoCallRun == CallRunEn(proc) /\ proc' = CallRun(proc) /\ UNCHANGED twin

DoRunReturns == RunEn(proc) /\ proc' = RunReturns(proc) /\ UNCHANGED twin

DoRunRaises ==
    RunEn(proc) /\ \E e \in ExcKinds : proc' = RunRaises(proc, e)
    /\ UNCHANGED twin

DoExternalKill == RunEn(proc) /\ proc' = ExternalKill(proc) /\ UNCHANGED twin

DoExitNormally ==
    ExitNormallyEn(proc) /\ proc' = ExitNormally(proc) /\ UNCHANGED twin

DoPropagate == PropagateEn(proc) /\ proc' = Propagate(proc) /\ UNCHANGED twin

\* the steps the interpreter takes by itself
LauncherStep ==
    \/ DoImport
    \/ DoPrintDiagnostic
    \/ DoSysExit
    \/ DoMainGuard
    \/ DoCallRun
    \/ DoExitNormally
    \/ DoPropagate

Next ==
    \/ DoImport
    \/ DoPrintDiagnostic
    \/ DoSysExit
    \/ DoMainGuard
    \/ DoConstructReturns
    \/ DoConstructRaises
    \/ DoCallRun
    \/ DoRunReturns
    \/ DoRunRaises
    \/ DoExternalKill
    \/ DoExitNormally
    \/ DoPropagate

Spec == Init /\ [][Next]_vars

\* The interpreter does not stop between statements, and a constructor call
\* ends (by returning or raising).  Nothing obliges the run loop to end.
FairSpec ==
    /\ Init /\ [][Next]_vars
    /\ WF_vars(LauncherStep)
    /\ WF_vars(DoConstructReturns \/ DoConstructRaises)

----------------------------------------------------------------------------
(* Two executions side by side: the same file, the same host state for the *)
(* dependency, the same behaviour of the server, but any two command lines *)
(* and environments.  Each step of proc is offered to twin as well.        *)

PairInit ==
    /\ proc \in InitStates
    /\ twin \in InitStates
    /\ twin.name = proc.name
    /\ twin.dep = proc.dep

PairImport ==
    /\ ImportEn(proc)
    /\ proc' = Import(proc)
    /\ twin' = IF ImportEn(twin) THEN Import(twin) ELSE twin

PairPrintDiagnostic ==
    /\ PrintDiagnosticEn(proc)
    /\ proc' = PrintDiagnostic(proc)
    /\ twin' = IF PrintDiagnosticEn(twin) THEN PrintDiagnostic(twin) ELSE twin

PairSysExit ==
    /\ SysExitEn(proc)
    /\ proc' = SysExit(proc)
    /\ twin' = IF SysExitEn(twin) THEN SysExit(twin) ELSE twin

PairMainGuard ==
    /\ MainGuardEn(proc)
    /\ proc' = MainGuard(proc)
    /\ twin' = IF MainGuardEn(twin) THEN MainGuard(twin) ELSE twin

PairConstructReturns ==
    /\ ConstructEn(proc)
    /\ proc' = ConstructReturns(proc)
    /\ twin' = IF ConstructEn(twin) THEN ConstructReturns(twin) ELSE twin

PairConstructRaises ==
    /\ ConstructEn(proc)
    /\ \E e \in ExcKinds :
          /\ proc' = ConstructRaises(proc, e)
          /\ twin' = IF ConstructEn(twin) THEN ConstructRaises(twin, e) ELSE twin

PairCallRun ==
    /\ CallRunEn(proc)
    /\ proc' = CallRun(proc)
    /\ twin' = IF CallRunEn(twin) THEN CallRun(twin) ELSE twin

PairRunReturns ==
    /\ RunEn(proc)
    /\ proc' = RunReturns(proc)
    /\ twin' = IF RunEn(twin) THEN RunReturns(twin) ELSE twin

PairRunRaises ==
    /\ RunEn(proc)
    /\ \E e \in ExcKinds :
          /\ proc' = RunRaises(proc, e)
          /\ twin' = IF RunEn(twin) THEN RunRaises(twin, e) ELSE twin

PairExternalKill ==
    /\ RunEn(proc)
    /\ proc' = ExternalKill(proc)
    /\ twin' = IF RunEn(twin) THEN ExternalKill(twin) ELSE twin

PairExitNormally ==
    /\ ExitNormallyEn(proc)
    /\ proc' = ExitNormally(proc)
    /\ twin' = IF ExitNormallyEn(twin) THEN ExitNormally(twin) ELSE twin

PairPropagate ==
    /\ PropagateEn(proc)
    /\ proc' = Propagate(proc)
    /\ twin' = IF PropagateEn(twin) THEN Propagate(twin) ELSE twin

PairNext ==
    \/ PairImport
    \/ PairPrintDiagnostic
    \/ PairSysExit
    \/ PairMainGuard
    \/ PairConstructReturns
    \/ PairConstructRaises
    \/ PairCallRun
    \/ PairRunReturns
    \/ PairRunRaises
    \/ PairExternalKill
    \/ PairExitNormally
    \/ PairPropagate

PairSpec == PairInit /\ [][PairNext]_vars

----------------------------------------------------------------------------
(* Vocabulary of the properties *)

\* the execution has performed the step ev
Has(s, ev) == \E i \in DOMAIN s.trace : s.trace[i] = ev

IsPrefix(a, b) == Len(a) <= Len(b) /\ \A i \in DOMAIN a : a[i] = b[i]

\* positions of stderr written by the script itself
LauncherLines(s) == {i \in DOMAIN s.stderr : s.stderr[i].by = "launcher"}

\* positions of stderr written by the interpreter's uncaught-exception hook
TracebackLines(s) == {i \in DOMAIN s.stderr : s.stderr[i].by = "interpreter"}

Remedy == <<"uv", "pip", "install", "mqtt-mcp">>

Package == <<"mqtt-mcp">>

\* the process is over
Ended(s) == s.pc \in {"exited", "killed"}

\* everything about an execution except its command line and environment
Observable(s) ==
    [ name |-> s.name, dep |-> s.dep, pc |-> s.pc, MQTTMCP |-> s.MQTTMCP,
      server |-> s.server, constructed |-> s.constructed,
      instances |-> s.instances, runs |-> s.runs, exc |-> s.exc,
      stdout |-> s.stdout, stderr |-> s.stderr, exitCode |-> s.exitCode,
      resolutions |-> s.resolutions, trace |-> s.trace ]

----------------------------------------------------------------------------
(* C1 *)

\* C1 as stated: whenever the dependency resolves and the script is the main
\* program, an execution that has ended by itself has constructed exactly one
\* server instance and has called run_async exactly once, with
\* transport "stdio".
C1_ExactlyOneRun ==
    (proc.dep = "ok" /\ proc.name = "__main__" /\ proc.pc = "exited") =>
        /\ proc.instances = 1
        /\ Len(proc.runs) = 1
        /\ proc.runs[1].transport = "stdio"

\* C1 amended: with the dependency resolved and the script run as the main
\* program, the constructor is called at most once (exactly once by the time
\* the process is over), run_async is called at most once and only with
\* transport "stdio"; run_async has been called exactly once as soon as the
\* constructor has returned and control has passed line 18, whatever the run
\* loop then does, and it is never called when the constructor raised.
C1_OneServerOneRunStdio ==
    (proc.dep = "ok" /\ proc.name = "__main__") =>
        /\ Len(proc.constructed) <= 1
        /\ proc.instances <= Len(proc.constructed)
        /\ Len(proc.runs) <= proc.instances
        /\ \A i \in DOMAIN proc.runs : proc.runs[i] = [transport |-> "stdio"]
        /\ Ended(proc) => Len(proc.constructed) = 1
        /\ (proc.instances = 1 /\ proc.pc # "call_run") => Len(proc.runs) = 1
        /\ Has(proc, "construct_raised") => (proc.instances = 0 /\ proc.runs = <<>>)

\* the server was constructed and run once, the run loop raised, the process ended
C1_Witness ==
    /\ proc.dep = "ok" /\ proc.name = "__main__" /\ proc.pc = "exited"
    /\ Has(proc, "run_raised")
    /\ proc.instances = 1 /\ Len(proc.runs) = 1

----------------------------------------------------------------------------
(* C2 *)

\* C2: when the import raises ImportError, the server is never constructed
\* and never run, nothing ends the process before the diagnostic is on
\* stderr, the diagnostic names the package and the remedy
\* "uv pip install mqtt-mcp", the process ends with exit status 1, and it
\* does end.
C2_MissingDependencyDiagnosedThenExit1 ==
    /\ [](proc.dep \in ImportErrors =>
            /\ proc.constructed = <<>> /\ proc.instances = 0 /\ proc.runs = <<>>
            /\ proc.pc \in {"import", "except", "sysexit", "exited"}
            /\ proc.pc \in {"sysexit", "exited"} =>
                  /\ proc.stderr = <<[by |-> "launcher", text |-> Diagnostic]>>
                  /\ Contains(proc.stderr[1].text, Remedy)
                  /\ Contains(proc.stderr[1].text, Package)
            /\ proc.pc = "exited" => proc.exitCode = 1
            /\ proc.pc # "exited" => proc.exitCode = NoExit)
    /\ (proc.dep \in ImportErrors) ~> (proc.pc = "exited" /\ proc.exitCode = 1)

\* the package is absent and the process has ended
C2_Witness ==
    /\ proc.dep = "absent" /\ proc.pc = "exited"
    /\ Cardinality(LauncherLines(proc)) = 1

----------------------------------------------------------------------------
(* C3 *)

\* C3: an execution whose run loop returned ends with exit status 0, and once
\* the run loop has returned the process does reach the state exited with 0.
C3_NormalReturnExits0 ==
    /\ []((Has(proc, "run_returned") /\ Ended(proc)) =>
             (proc.dep = "ok" /\ proc.pc = "exited" /\ proc.exitCode = 0))
    /\ Has(proc, "run_returned") ~> (proc.pc = "exited" /\ proc.exitCode = 0)

\* the run loop returned and the process has exited
C3_Witness ==
    /\ Has(proc, "run_returned") /\ proc.pc = "exited"
    /\ proc.trace[Len(proc.trace)] = "exit"

----------------------------------------------------------------------------
(* C4 *)

----------------------------------------------------------------------------
(* C5 *)

\* C5: after the constructor or the run loop has raised, the script writes
\* no diagnostic, constructs nothing more, does not call run_async again,
\* does nothing but let the exception end the process, and never exits
\* with status 0.
C5_ServerErrorsPropagate ==
    (Has(proc, "construct_raised") \/ Has(proc, "run_raised")) =>
        /\ LauncherLines(proc) = {}
        /\ Len(proc.constructed) = 1
        /\ Len(proc.runs) = (IF Has(proc, "run_raised") THEN 1 ELSE 0)
        /\ proc.exitCode # 0
        /\ proc.pc \in {"propagate", "exited"}
        /\ proc.pc = "propagate" =>
              proc.trace[Len(proc.trace)] \in {"construct_raised", "run_raised"}
        /\ proc.pc = "exited" =>
              /\ proc.trace[Len(proc.trace)] = "uncaught"
              /\ proc.trace[Len(proc.trace) - 1] \in {"construct_raised", "run_raised"}

\* the constructor raised an ImportError and the process has ended
C5_Witness ==
    /\ Has(proc, "construct_raised") /\ proc.exc = "ImportError"
    /\ proc.pc = "exited"

----------------------------------------------------------------------------
(* C6 *)

\* C6: the import statement is executed at most once, and an execution in
\* which it raised ImportError does nothing else than, in this order, write
\* the diagnostic once and exit: no construction, no run, no second import.
C6_FailureNeverRetried ==
    /\ proc.resolutions <= 1
    /\ proc.pc # "import" => proc.resolutions = 1
    /\ Has(proc, "import_failed") =>
          /\ IsPrefix(proc.trace, <<"import_failed", "diagnostic", "sys_exit">>)
          /\ Cardinality(LauncherLines(proc)) <= 1
          /\ proc.constructed = <<>> /\ proc.runs = <<>>
          /\ ~proc.MQTTMCP

\* the failed resolution has been followed by the diagnostic and the exit
C6_Witness == proc.trace = <<"import_failed", "diagnostic", "sys_exit">>

----------------------------------------------------------------------------
(* C7 *)

----------------------------------------------------------------------------
(* C8 *)

\* C8: two executions that differ only in their command line and environment
\* agree at every step on everything else (position, calls made, output, exit
\* status, sequence of steps); the constructor is called without arguments
\* and run_async with transport "stdio" in both.
C8_IndependentOfArgvAndEnviron ==
    /\ Observable(proc) = Observable(twin)
    /\ \A i \in DOMAIN proc.constructed : proc.constructed[i] = <<>>
    /\ \A i \in DOMAIN twin.constructed : twin.constructed[i] = <<>>
    /\ \A i \in DOMAIN proc.runs : proc.runs[i] = [transport |-> "stdio"]
    /\ \A i \in DOMAIN twin.runs : twin.runs[i] = [transport |-> "stdio"]

\* two executions with different command lines and environments have both
\* called run_async
C8_Witness ==
    /\ proc.argv # twin.argv /\ proc.environ # twin.environ
    /\ Len(proc.argv) > 0 /\ "MQTT_TRANSPORT" \in twin.environ
    /\ Len(proc.runs) = 1 /\ Len(twin.runs) = 1

----------------------------------------------------------------------------
(* C9 *)

\* C9: the script writes nothing to standard output, and the only thing it
\* writes at all is the diagnostic, once, to stderr.
C9_NothingOnStdout ==
    /\ proc.stdout = <<>>
    /\ Cardinality(LauncherLines(proc)) <= 1
    /\ \A i \in LauncherLines(proc) : proc.stderr[i].text = Diagnostic
    /\ Has(proc, "diagnostic") => Cardinality(LauncherLines(proc)) = 1

\* the diagnostic has just been printed
C9_Witness ==
    /\ proc.pc = "sysexit"
    /\ LauncherLines(proc) = {1}

----------------------------------------------------------------------------
(* C10 *)

\* C10: when the file is loaded as a module, the import is still executed
\* (and an ImportError still leads to the diagnostic and exit status 1), but
\* no server is constructed and run_async is never called: after a
\* successful import the load simply completes.
C10_ModuleLoadResolvesButNeverRuns ==
    proc.name # "__main__" =>
        /\ proc.constructed = <<>> /\ proc.instances = 0 /\ proc.runs = <<>>
        /\ proc.server = "none"
        /\ proc.pc # "import" => proc.resolutions = 1
        /\ proc.pc \in {"import", "except", "sysexit", "guard", "loaded",
                        "propagate", "exited"}
        /\ (proc.dep \in ImportErrors /\ proc.pc = "exited") =>
              /\ proc.exitCode = 1
              /\ proc.stderr = <<[by |-> "launcher", text |-> Diagnostic]>>
        /\ (proc.dep = "ok" /\ proc.pc \notin {"import", "guard"}) =>
              (proc.pc = "loaded" /\ proc.MQTTMCP /\ proc.exitCode = NoExit)

\* the file was loaded as a module with the dependency present
C10_Witness ==
    /\ proc.name # "__main__" /\ proc.pc = "loaded"
    /\ proc.resolutions = 1

====
